---- MODULE Spec2Model ----
(***************************************************************************)
(* The REST handlers of routes/api/posts.js and routes/api/profile.js over *)
(* the User, Profile and Post stores.  Every handler is an async function: *)
(* it runs from one await to the next without interruption, and each       *)
(* awaited store call is one step of the model.  The first step of a       *)
(* request is its arrival (the validators and the synchronous prefix of    *)
(* the handler) together with its first store call.                       *)
(***************************************************************************)
EXTENDS Integers, Sequences, FiniteSets, TLC

\* ------------------------------------------------------------------ bounds
MaxPosts == 2
MaxLikedPosts == 1
MaxCommentedPosts == 1
MaxComments == 1
MaxEntries == 1
MaxProfiles == 2

\* The users that registered (each holds a token that never stops verifying),
\* and the requests that can be in flight at once.
UserIds == {"u1", "u2"}
Slots == {"r1", "r2"}
PostIds == 1..MaxPosts
CommentIds == 1..MaxComments

VARIABLES
  users,          \* User store: the ids of the user records that exist
  profiles,       \* Profile store: the profile documents, in insertion order
  posts,          \* Post store: post id -> document
  nextPostId,     \* the id the next inserted post gets
  nextCommentId,  \* the id the next comment subdocument gets
  nextProfileId,  \* the id the next inserted profile gets
  req,            \* slot -> the request in flight there (its handler's locals)
  resp,           \* the response this step sent (NoResp when it sent none)
  lastLike,       \* history: the like saved last, while nothing else touched its post
  lastUpsert      \* history: user -> the body of the user's last profile upsert

vars == <<users, profiles, posts, nextPostId, nextCommentId, nextProfileId, req, resp,
          lastLike, lastUpsert>>

\* ------------------------------------------------------------------ values
\* A request body of POST api/profile.  A string is the sequence of its
\* characters; skills holds the one string sent, or the strings of the array
\* sent; "" stands for a key the body does not carry.
NoBody == [status |-> "", skills |-> <<>>, isArray |-> FALSE, website |-> "",
           company |-> "", twitter |-> ""]
NoEntry == [school |-> "", degree |-> "", fieldofstudy |-> "", from |-> "",
            title |-> "", company |-> ""]

Idle == [op |-> "none", pc |-> "idle", user |-> "", post |-> 0, cid |-> 0,
         likes |-> <<>>, comments |-> <<>>, stale |-> FALSE, before |-> <<>>,
         sent |-> 0, alone |-> FALSE, n |-> 0, found |-> FALSE,
         body |-> NoBody, entry |-> NoEntry, list |-> <<>>, pid |-> 0]

NoResp == [op |-> "none", user |-> "", status |-> 0, post |-> 0, cid |-> 0,
           stale |-> FALSE, alone |-> FALSE, n |-> 0]

NoLike == [valid |-> FALSE, post |-> 0, user |-> "", before |-> <<>>, by |-> ""]

Response(op, u, status, p) ==
  [op |-> op, user |-> u, status |-> status, post |-> p, cid |-> 0,
   stale |-> FALSE, alone |-> FALSE, n |-> 0]

Free(s) == req[s].pc = "idle"

\* A step of a request on post p ends the "nothing else touched it" history.
Touch(p) == IF lastLike.post = p THEN NoLike ELSE lastLike

\* Another request of user u arrives: a cascade of u in flight is no longer alone.
Arrive(s, u, r) ==
  [t \in Slots |->
     IF t = s THEN r
     ELSE IF req[t].user = u /\ req[t].pc # "idle" THEN [req[t] EXCEPT !.alone = FALSE]
     ELSE req[t]]

\* The ids handed out and the ids the requests in flight will take stay below n.
PostsBelow(n) ==
  nextPostId + Cardinality({t \in Slots : req[t].op = "createPost"}) <= n
CommentsBelow(n) ==
  nextCommentId + Cardinality({t \in Slots : req[t].pc = "post"}) <= n

OthersInFlight(s, u) == \E t \in Slots \ {s} : req[t].pc # "idle" /\ req[t].user = u

\* ------------------------------------------------------------------ sequences
RECURSIVE SelectSeqBy(_, _)
\* Array.prototype.filter with the predicate "x \in keep".
SelectSeqBy(seq, keep) ==
  IF seq = <<>> THEN <<>>
  ELSE IF Head(seq) \in keep THEN <<Head(seq)>> \o SelectSeqBy(Tail(seq), keep)
       ELSE SelectSeqBy(Tail(seq), keep)

Range(seq) == {seq[i] : i \in DOMAIN seq}

NoDuplicates(seq) == \A i, j \in DOMAIN seq : seq[i] = seq[j] => i = j

\* ------------------------------------------------------------------ posts.js
PostExists(p) == p \in DOMAIN posts

IsOwnerUnchecked(doc, u) == TRUE

\* post.user.toString() !== req.user.id
IsOwner(doc, u) == doc.user = u

AlreadyLikedFirstOnly(likes, u) == likes # <<>> /\ likes[1] = u

AlreadyLikedLastOnly(likes, u) == likes # <<>> /\ likes[Len(likes)] = u

\* post.likes.some(({ user }) => user.toString() === req.user.id)
AlreadyLiked(likes, u) == \E i \in DOMAIN likes : likes[i] = u

\* post.likes.unshift({ user: req.user.id })
AddLike(likes, u) == <<u>> \o likes

RemoveLikeInverted(likes, u) == SelectSeqBy(likes, {u})

\* post.likes.filter(({ user }) => user.toString() !== req.user.id)
RemoveLike(likes, u) == SelectSeqBy(likes, UserIds \ {u})

\* post.comments.find(({ id }) => id === req.params.commentId)
CommentFound(comments, c) == \E i \in DOMAIN comments : comments[i].id = c
FindComment(comments, c) ==
  comments[CHOOSE i \in DOMAIN comments :
             comments[i].id = c /\ \A j \in DOMAIN comments : comments[j].id = c => i <= j]

\* post.comments.filter(({ id }) => id !== req.params.commentId)
RemoveComment(comments, c) ==
  SelectSeqBy(comments, {x \in Range(comments) : x.id # c})

\* The other handlers that hold a copy of post p: their copy is now out of date.
Outdate(s, p, r) ==
  [t \in Slots |->
     IF t = s THEN r
     ELSE IF req[t].post = p /\ req[t].pc = "save" THEN [req[t] EXCEPT !.stale = TRUE]
     ELSE req[t]]

\* await post.save(), then the response; a failed save goes to the catch block.
\* A save of a copy that is out of date either overwrites the stored array
\* (last write wins) or is refused by the store's version check; a save of a
\* removed document is refused.
SavePost(s, doc) ==
  LET p == req[s].post
      r == req[s] IN
  /\ r.pc = "save"
  /\ \/ /\ PostExists(p)
        /\ posts' = [posts EXCEPT ![p] = doc]
        /\ req' = Outdate(s, p, Idle)
        /\ resp' = [Response(r.op, r.user, 200, p) EXCEPT !.stale = r.stale,
                                                          !.cid = r.cid]
        /\ lastLike' = IF r.op = "likePost"
                         THEN [valid |-> TRUE, post |-> p, user |-> r.user,
                               before |-> r.before, by |-> ""]
                       ELSE IF r.op = "unlikePost" /\ lastLike.valid /\ lastLike.by = s
                         THEN [lastLike EXCEPT !.valid = FALSE]
                       ELSE Touch(p)
     \/ /\ ~PostExists(p) \/ r.stale
        /\ posts' = posts
        /\ req' = [req EXCEPT ![s] = Idle]
        /\ resp' = [Response(r.op, r.user, 500, p) EXCEPT !.stale = r.stale,
                                                          !.cid = r.cid]
        /\ lastLike' = Touch(p)
  /\ UNCHANGED <<users, profiles, nextPostId, nextCommentId, nextProfileId, lastUpsert>>

\* router.post('/'): the validator, then User.findById
CreatePostStart(s, u, textOk) ==
  /\ Free(s)
  /\ PostsBelow(MaxPosts)
  /\ IF ~textOk
       THEN /\ resp' = Response("createPost", u, 400, 0)
            /\ req' = req
     ELSE IF u \notin users
       THEN /\ resp' = Response("createPost", u, 500, 0)
            /\ req' = req
     ELSE /\ resp' = NoResp
          /\ req' = Arrive(s, u, [Idle EXCEPT !.op = "createPost", !.pc = "insert",
                                               !.user = u])
  /\ UNCHANGED <<users, profiles, posts, nextPostId, nextCommentId, nextProfileId, lastLike, lastUpsert>>

\* await newPost.save()
CreatePostSave(s) ==
  /\ req[s].op = "createPost" /\ req[s].pc = "insert"
  /\ posts' = [p \in DOMAIN posts \cup {nextPostId} |->
                 IF p = nextPostId
                   THEN [user |-> req[s].user, likes |-> <<>>, comments |-> <<>>]
                 ELSE posts[p]]
  /\ nextPostId' = nextPostId + 1
  /\ req' = [req EXCEPT ![s] = Idle]
  /\ resp' = Response("createPost", req[s].user, 200, nextPostId)
  /\ UNCHANGED <<users, profiles, nextCommentId, nextProfileId, lastLike, lastUpsert>>

\* router.delete('/:postId'): Post.findById and the two checks
DeletePostRead(s, u, p) ==
  /\ Free(s)
  /\ lastLike' = Touch(p)
  /\ IF ~PostExists(p)
       THEN /\ resp' = Response("deletePost", u, 404, p)
            /\ req' = req
     ELSE IF ~IsOwner(posts[p], u)
       THEN /\ resp' = Response("deletePost", u, 401, p)
            /\ req' = req
     ELSE /\ resp' = NoResp
          /\ req' = Arrive(s, u, [Idle EXCEPT !.op = "deletePost", !.pc = "remove",
                                               !.user = u, !.post = p])
  /\ UNCHANGED <<users, profiles, posts, nextPostId, nextCommentId, nextProfileId, lastUpsert>>

\* await post.remove()
DeletePostRemove(s) ==
  LET p == req[s].post IN
  /\ req[s].op = "deletePost" /\ req[s].pc = "remove"
  /\ posts' = [q \in DOMAIN posts \ {p} |-> posts[q]]
  /\ req' = [req EXCEPT ![s] = Idle]
  /\ resp' = Response("deletePost", req[s].user, 200, p)
  /\ lastLike' = Touch(p)
  /\ UNCHANGED <<users, profiles, nextPostId, nextCommentId, nextProfileId, lastUpsert>>

\* router.put('/like/:postId'): Post.findById, the check and the unshift
LikeRead(s, u, p) ==
  /\ Free(s)
  /\ lastLike' = Touch(p)
  /\ IF ~PostExists(p)
       THEN /\ resp' = Response("likePost", u, 404, p)
            /\ req' = req
     ELSE IF AlreadyLiked(posts[p].likes, u)
       THEN /\ resp' = Response("likePost", u, 400, p)
            /\ req' = req
     ELSE /\ resp' = NoResp
          /\ req' = Arrive(s, u, [Idle EXCEPT !.op = "likePost", !.pc = "save",
                                               !.user = u, !.post = p,
                                               !.before = posts[p].likes,
                                               !.likes = AddLike(posts[p].likes, u)])
  /\ UNCHANGED <<users, profiles, posts, nextPostId, nextCommentId, nextProfileId, lastUpsert>>

LikeSave(s) ==
  /\ req[s].op = "likePost"
  /\ SavePost(s, [posts[req[s].post] EXCEPT !.likes = req[s].likes])

\* router.put('/unlike/:postId'): Post.findById, the check and the filter
UnlikeRead(s, u, p) ==
  LET follows == /\ lastLike.valid /\ lastLike.post = p /\ lastLike.user = u
                 /\ lastLike.by = "" /\ PostExists(p) IN
  /\ Free(s)
  /\ lastLike' = IF follows THEN [lastLike EXCEPT !.by = s] ELSE Touch(p)
  /\ IF ~PostExists(p)
       THEN /\ resp' = Response("unlikePost", u, 404, p)
            /\ req' = req
     ELSE IF ~AlreadyLiked(posts[p].likes, u)
       THEN /\ resp' = Response("unlikePost", u, 400, p)
            /\ req' = req
     ELSE /\ resp' = NoResp
          /\ req' = Arrive(s, u, [Idle EXCEPT !.op = "unlikePost", !.pc = "save",
                                               !.user = u, !.post = p,
                                               !.likes = RemoveLike(posts[p].likes, u)])
  /\ UNCHANGED <<users, profiles, posts, nextPostId, nextCommentId, nextProfileId, lastUpsert>>

UnlikeSave(s) ==
  /\ req[s].op = "unlikePost"
  /\ SavePost(s, [posts[req[s].post] EXCEPT !.likes = req[s].likes])

\* router.post('/comment/:postId'): the validator, then User.findById
AddCommentUser(s, u, p, textOk) ==
  /\ Free(s)
  /\ CommentsBelow(MaxComments)
  /\ IF ~textOk
       THEN /\ resp' = Response("addComment", u, 400, p)
            /\ req' = req
     ELSE /\ resp' = NoResp
          /\ req' = Arrive(s, u, [Idle EXCEPT !.op = "addComment", !.pc = "post",
                                               !.user = u, !.post = p,
                                               !.found = u \in users])
  /\ UNCHANGED <<users, profiles, posts, nextPostId, nextCommentId, nextProfileId, lastLike, lastUpsert>>

\* Post.findById, then user.name, post.comments.unshift(newComment)
AddCommentPost(s) ==
  LET p == req[s].post IN
  /\ req[s].op = "addComment" /\ req[s].pc = "post"
  /\ lastLike' = Touch(p)
  /\ IF ~req[s].found \/ ~PostExists(p)
       THEN /\ resp' = Response("addComment", req[s].user, 500, p)
            /\ req' = [req EXCEPT ![s] = Idle]
            /\ nextCommentId' = nextCommentId
     ELSE /\ resp' = NoResp
          /\ req' = [req EXCEPT ![s].pc = "save",
                                ![s].comments =
                                   <<[id |-> nextCommentId, user |-> req[s].user]>>
                                     \o posts[p].comments]
          /\ nextCommentId' = nextCommentId + 1
  /\ UNCHANGED <<users, profiles, posts, nextPostId, nextProfileId, lastUpsert>>

AddCommentSave(s) ==
  /\ req[s].op = "addComment"
  /\ SavePost(s, [posts[req[s].post] EXCEPT !.comments = req[s].comments])

\* router.delete('/comment/:postId/:commentId'): Post.findById, post.comments.find,
\* the two checks and the filter
DeleteCommentRead(s, u, p, c) ==
  /\ Free(s)
  /\ lastLike' = Touch(p)
  /\ IF ~PostExists(p)
       THEN /\ resp' = [Response("deleteComment", u, 500, p) EXCEPT !.cid = c]
            /\ req' = req
     ELSE IF ~CommentFound(posts[p].comments, c)
       THEN /\ resp' = [Response("deleteComment", u, 404, p) EXCEPT !.cid = c]
            /\ req' = req
     ELSE IF ~IsOwner(FindComment(posts[p].comments, c), u)
       THEN /\ resp' = [Response("deleteComment", u, 401, p) EXCEPT !.cid = c]
            /\ req' = req
     ELSE /\ resp' = NoResp
          /\ req' = Arrive(s, u, [Idle EXCEPT !.op = "deleteComment", !.pc = "save",
                                               !.user = u, !.post = p, !.cid = c,
                                               !.comments =
                                                  RemoveComment(posts[p].comments, c)])
  /\ UNCHANGED <<users, profiles, posts, nextPostId, nextCommentId, nextProfileId, lastUpsert>>

DeleteCommentSave(s) ==
  /\ req[s].op = "deleteComment"
  /\ SavePost(s, [posts[req[s].post] EXCEPT !.comments = req[s].comments])

\* ------------------------------------------------------------------ profile.js
\* The documents of user u in a store (a sequence of documents), by position.
Of(docs, u) == {i \in DOMAIN docs : docs[i].user = u}
First(is) == CHOOSE i \in is : \A j \in is : i <= j
HasProfile(u) == Of(profiles, u) # {}

WithId(docs, id) == {i \in DOMAIN docs : docs[i].id = id}

\* The sequence without its i-th element.
Without(seq, i) == SubSeq(seq, 1, i - 1) \o SubSeq(seq, i + 1, Len(seq))

RECURSIVE Split(_)
\* skills.split(',')
Split(str) ==
  LET commas == {i \in DOMAIN str : str[i] = ","} IN
  IF commas = {} THEN <<str>>
  ELSE <<SubSeq(str, 1, First(commas) - 1)>>
         \o Split(SubSeq(str, First(commas) + 1, Len(str)))

RECURSIVE Trim(_)
\* skill.trim()
Trim(str) ==
  IF str = <<>> THEN str
  ELSE IF Head(str) = " " THEN Trim(Tail(str))
  ELSE IF str[Len(str)] = " " THEN Trim(SubSeq(str, 1, Len(str) - 1))
  ELSE str

\* normalize(url, { forceHttps: true }) on the addresses the requests send
Normalize(url) ==
  CASE url = "x.com" -> "https://x.com"
    [] url = "http://x.com" -> "https://x.com"
    [] url = "http://x.com/" -> "https://x.com"
    [] OTHER -> url

\* Array.isArray(skills) ? skills : skills.split(',').map((skill) => skill.trim())
Skills(body) ==
  IF body.isArray THEN body.skills
  ELSE LET parts == Split(body.skills[1]) IN [i \in DOMAIN parts |-> Trim(parts[i])]

\* body('status').not().isEmpty(), body('skills').not().isEmpty()
ProfileValid(body) ==
  /\ body.status # ""
  /\ body.skills # <<>>
  /\ body.isArray \/ body.skills[1] # <<>>

\* profileFields: user, website, skills, ...rest, and social
ProfileFields(u, body) ==
  [user |-> u,
   website |-> IF body.website # "" THEN Normalize(body.website) ELSE "",
   skills |-> Skills(body),
   status |-> body.status,
   company |-> body.company,
   twitter |-> IF body.twitter # "" THEN Normalize(body.twitter) ELSE ""]

ApplyPush(doc, f) ==
  [doc EXCEPT !.website = f.website, !.skills = doc.skills \o f.skills,
              !.status = f.status,
              !.company = IF f.company # "" THEN f.company ELSE doc.company,
              !.twitter = f.twitter]

\* { $set: profileFields }: the keys of the body replace the stored ones, the
\* keys it does not carry keep their stored value, social is replaced whole
ApplySet(doc, f) ==
  [doc EXCEPT !.website = f.website, !.skills = f.skills, !.status = f.status,
              !.company = IF f.company # "" THEN f.company ELSE doc.company,
              !.twitter = f.twitter]

\* The document an upsert inserts: the schema's defaults under the fields set.
NewProfile(id, f) ==
  ApplySet([id |-> id, user |-> f.user, status |-> "", company |-> "", website |-> "",
            skills |-> <<>>, twitter |-> "", experience |-> <<>>, education |-> <<>>], f)

\* Profile.user is unique: the store refuses a second profile of a user.
InsertAllowed(u) == ~HasProfile(u)

\* router.post('/'): the validators and profileFields; findOneAndUpdate looks
\* for the caller's profile
UpsertProfileFind(s, u, body) ==
  /\ Free(s)
  /\ IF ~ProfileValid(body)
       THEN /\ resp' = Response("upsertProfile", u, 400, 0)
            /\ req' = req
     ELSE /\ resp' = NoResp
          /\ req' = Arrive(s, u, [Idle EXCEPT !.op = "upsertProfile", !.pc = "apply",
                                               !.user = u, !.body = body,
                                               !.found = HasProfile(u)])
  /\ UNCHANGED <<users, profiles, posts, nextPostId, nextCommentId, nextProfileId,
                 lastLike, lastUpsert>>

\* findOneAndUpdate({ user }, { $set: profileFields }, { new: true, upsert: true })
\* writes: the profile found is updated, and none found is inserted.  An insert
\* that meets a profile inserted meanwhile is refused and either retried as an
\* update or reported (the catch block).
UpsertProfileApply(s) ==
  LET u == req[s].user
      f == ProfileFields(u, req[s].body) IN
  /\ req[s].op = "upsertProfile" /\ req[s].pc = "apply"
  /\ \/ /\ HasProfile(u)
        /\ profiles' = [profiles EXCEPT ![First(Of(profiles, u))] = ApplySet(@, f)]
        /\ nextProfileId' = nextProfileId
        /\ resp' = [Response("upsertProfile", u, 200, 0) EXCEPT
                      !.n = IF lastUpsert[u] = req[s].body THEN 1 ELSE 0]
        /\ lastUpsert' = [lastUpsert EXCEPT ![u] = req[s].body]
     \/ /\ InsertAllowed(u)
        /\ nextProfileId <= MaxProfiles
        /\ profiles' = Append(profiles, NewProfile(nextProfileId, f))
        /\ nextProfileId' = nextProfileId + 1
        /\ resp' = Response("upsertProfile", u, 200, 0)
        /\ lastUpsert' = [lastUpsert EXCEPT ![u] = req[s].body]
     \/ /\ ~req[s].found /\ ~InsertAllowed(u)
        /\ resp' = Response("upsertProfile", u, 500, 0)
        /\ UNCHANGED <<profiles, nextProfileId, lastUpsert>>
     \/ /\ ~HasProfile(u) /\ nextProfileId > MaxProfiles
        /\ resp' = Response("upsertProfile", u, 500, 0)
        /\ UNCHANGED <<profiles, nextProfileId, lastUpsert>>
  /\ req' = [req EXCEPT ![s] = Idle]
  /\ UNCHANGED <<users, posts, nextPostId, nextCommentId, lastLike>>

\* router.get('/user/:userId'): Profile.findOne({ user }), 400 when there is none
GetProfileByUser(docs, u) == IF Of(docs, u) = {} THEN 400 ELSE 200

DeleteOnePost(docs, u) ==
  LET mine == {p \in DOMAIN docs : docs[p].user = u} IN
  IF mine = {} THEN docs
  ELSE [p \in DOMAIN docs \ {First(mine)} |-> docs[p]]

\* Post.deleteMany({ user: req.user.id })
DeleteManyPosts(docs, u) ==
  [p \in {q \in DOMAIN docs : docs[q].user # u} |-> docs[p]]

\* Profile.findOneAndRemove({ user: req.user.id })
RemoveOneProfile(docs, u) ==
  IF Of(docs, u) = {} THEN docs ELSE Without(docs, First(Of(docs, u)))

\* router.delete('/'): await Post.deleteMany
DeleteMyProfilePosts(s, u) ==
  /\ Free(s)
  /\ posts' = DeleteManyPosts(posts, u)
  /\ req' = Arrive(s, u, [Idle EXCEPT !.op = "deleteMyProfile", !.pc = "profile",
                                       !.user = u, !.alone = ~OthersInFlight(s, u),
                                       !.n = Cardinality(DOMAIN posts)
                                               - Cardinality(DOMAIN posts')])
  /\ resp' = NoResp
  /\ lastLike' = IF lastLike.post \in DOMAIN posts' THEN lastLike ELSE NoLike
  /\ UNCHANGED <<users, profiles, nextPostId, nextCommentId, nextProfileId, lastUpsert>>

\* await Profile.findOneAndRemove
DeleteMyProfileProfile(s) ==
  LET u == req[s].user IN
  /\ req[s].op = "deleteMyProfile" /\ req[s].pc = "profile"
  /\ profiles' = RemoveOneProfile(profiles, u)
  /\ lastUpsert' = [lastUpsert EXCEPT ![u] = NoBody]
  /\ req' = [req EXCEPT ![s].pc = "user"]
  /\ resp' = NoResp
  /\ UNCHANGED <<users, posts, nextPostId, nextCommentId, nextProfileId, lastLike>>

\* await User.findOneAndRemove, then the response
DeleteMyProfileUser(s) ==
  LET u == req[s].user IN
  /\ req[s].op = "deleteMyProfile" /\ req[s].pc = "user"
  /\ users' = users \ {u}
  /\ req' = [req EXCEPT ![s] = Idle]
  /\ resp' = [Response("deleteMyProfile", u, 200, 0) EXCEPT !.alone = req[s].alone,
                                                            !.n = req[s].n]
  /\ UNCHANGED <<profiles, posts, nextPostId, nextCommentId, nextProfileId, lastLike,
                 lastUpsert>>

\* body(...).not().isEmpty() of PUT api/profile/experience
ExperienceValid(e) == e.title # "" /\ e.company # "" /\ e.from # ""

\* body(...).not().isEmpty() of PUT api/profile/education
EducationValid(e) ==
  e.school # "" /\ e.degree # "" /\ e.fieldofstudy # "" /\ e.from # ""

\* The other handlers that hold a copy of profile id: their copy is now out of date.
OutdateProfile(s, id, r) ==
  [t \in Slots |->
     IF t = s THEN r
     ELSE IF req[t].pid = id /\ req[t].pc = "saveProfile"
       THEN [req[t] EXCEPT !.stale = TRUE]
     ELSE req[t]]

\* await profile.save() and what follows it.  The save of a copy that is out of
\* date overwrites the stored array or is refused, the save of a removed document
\* is refused, and the schema may refuse an entry with an empty field.  A second
\* response of a request that answered already is not sent.
SaveProfile(s, valid) ==
  LET r == req[s]
      at == WithId(profiles, r.pid) IN
  /\ r.pc = "saveProfile"
  /\ \/ /\ at # {}
        /\ profiles' = [profiles EXCEPT ![First(at)] =
                          IF r.op = "addEducation" THEN [@ EXCEPT !.education = r.list]
                          ELSE [@ EXCEPT !.experience = r.list]]
        /\ req' = OutdateProfile(s, r.pid, Idle)
        /\ resp' = IF r.sent # 0 THEN NoResp
                   ELSE [Response(r.op, r.user, 200, 0) EXCEPT !.stale = r.stale]
     \/ /\ at = {} \/ r.stale \/ ~valid
        /\ profiles' = profiles
        /\ req' = [req EXCEPT ![s] = Idle]
        /\ resp' = IF r.sent # 0 THEN NoResp
                   ELSE [Response(r.op, r.user, 500, 0) EXCEPT !.stale = r.stale]
  /\ UNCHANGED <<users, posts, nextPostId, nextCommentId, nextProfileId, lastLike,
                 lastUpsert>>

\* router.put('/experience'): the validators (a failure returns the 400), then
\* Profile.findOne and profile.experience.unshift(newExp)
AddExperienceRead(s, u, e) ==
  /\ Free(s)
  /\ IF ~ExperienceValid(e)
       THEN /\ resp' = Response("addExperience", u, 400, 0)
            /\ req' = req
     ELSE IF ~HasProfile(u)
       THEN /\ resp' = Response("addExperience", u, 500, 0)
            /\ req' = req
     ELSE LET doc == profiles[First(Of(profiles, u))] IN
          /\ Len(doc.experience) < MaxEntries
          /\ resp' = NoResp
          /\ req' = Arrive(s, u, [Idle EXCEPT !.op = "addExperience",
                                               !.pc = "saveProfile", !.user = u,
                                               !.entry = e, !.pid = doc.id,
                                               !.list = <<e>> \o doc.experience])
  /\ UNCHANGED <<users, profiles, posts, nextPostId, nextCommentId, nextProfileId,
                 lastLike, lastUpsert>>

AddExperienceSave(s) ==
  /\ req[s].op = "addExperience"
  /\ SaveProfile(s, ExperienceValid(req[s].entry))

\* router.put('/education'): the validators (a failure sends the 400 and the
\* handler goes on), then Profile.findOne and profile.education.unshift(newEdu)
AddEducationRead(s, u, e) ==
  LET sent == IF EducationValid(e) THEN 0 ELSE 400 IN
  /\ Free(s)
  /\ IF ~HasProfile(u)
       THEN /\ resp' = Response("addEducation", u, IF sent # 0 THEN sent ELSE 500, 0)
            /\ req' = req
     ELSE LET doc == profiles[First(Of(profiles, u))] IN
          /\ Len(doc.education) < MaxEntries
          /\ resp' = IF sent # 0 THEN Response("addEducation", u, sent, 0) ELSE NoResp
          /\ req' = Arrive(s, u, [Idle EXCEPT !.op = "addEducation",
                                               !.pc = "saveProfile", !.user = u,
                                               !.entry = e, !.pid = doc.id,
                                               !.sent = sent,
                                               !.list = <<e>> \o doc.education])
  /\ UNCHANGED <<users, profiles, posts, nextPostId, nextCommentId, nextProfileId,
                 lastLike, lastUpsert>>

AddEducationSave(s) ==
  /\ req[s].op = "addEducation"
  /\ SaveProfile(s, EducationValid(req[s].entry))

\* ------------------------------------------------------------------ specifications
Init ==
  /\ users = UserIds
  /\ profiles = <<>>
  /\ posts = <<>>
  /\ nextPostId = 1
  /\ nextCommentId = 1
  /\ nextProfileId = 1
  /\ req = [s \in Slots |-> Idle]
  /\ resp = NoResp
  /\ lastLike = NoLike
  /\ lastUpsert = [u \in UserIds |-> NoBody]

\* Posts and their likes.
NextLikes ==
  \/ \E s \in Slots, u \in UserIds, ok \in BOOLEAN :
       PostsBelow(MaxLikedPosts) /\ CreatePostStart(s, u, ok)
  \/ \E s \in Slots : CreatePostSave(s)
  \/ \E s \in Slots, u \in UserIds, p \in PostIds : LikeRead(s, u, p)
  \/ \E s \in Slots : LikeSave(s)
  \/ \E s \in Slots, u \in UserIds, p \in PostIds : UnlikeRead(s, u, p)
  \/ \E s \in Slots : UnlikeSave(s)

SpecLikes == Init /\ [][NextLikes]_vars

\* Posts, their comments, and their removal.
NextComments ==
  \/ \E s \in Slots, u \in UserIds, ok \in BOOLEAN :
       PostsBelow(MaxCommentedPosts) /\ CreatePostStart(s, u, ok)
  \/ \E s \in Slots : CreatePostSave(s)
  \/ \E s \in Slots, u \in UserIds, p \in PostIds : DeletePostRead(s, u, p)
  \/ \E s \in Slots : DeletePostRemove(s)
  \/ \E s \in Slots, u \in UserIds, p \in PostIds, ok \in BOOLEAN : AddCommentUser(s, u, p, ok)
  \/ \E s \in Slots : AddCommentPost(s)
  \/ \E s \in Slots : AddCommentSave(s)
  \/ \E s \in Slots, u \in UserIds, p \in PostIds, c \in CommentIds : DeleteCommentRead(s, u, p, c)
  \/ \E s \in Slots : DeleteCommentSave(s)

SpecComments == Init /\ [][NextComments]_vars

\* The bodies the profile requests send.
UpsertBodies ==
  { [status |-> "Dev", isArray |-> FALSE, skills |-> <<<<"a", ",", " ", "b", " ">>>>,
     website |-> "http://x.com", company |-> "Acme", twitter |-> "x.com"],
    [status |-> "Dev", isArray |-> FALSE, skills |-> <<<<"b">>>>,
     website |-> "", company |-> "", twitter |-> ""],
    [status |-> "Dev", isArray |-> TRUE, skills |-> << <<" ", "a">>, <<"b">> >>,
     website |-> "https://x.com", company |-> "", twitter |-> "http://x.com/"],
    [status |-> "", isArray |-> FALSE, skills |-> <<<<"b">>>>,
     website |-> "", company |-> "", twitter |-> ""],
    [status |-> "Dev", isArray |-> FALSE, skills |-> << <<>> >>,
     website |-> "", company |-> "", twitter |-> ""] }

OneBody ==
  { [status |-> "Dev", isArray |-> FALSE, skills |-> <<<<"b">>>>,
     website |-> "", company |-> "", twitter |-> ""] }

EducationBodies ==
  { [NoEntry EXCEPT !.school = "s", !.degree = "d", !.fieldofstudy = "f", !.from = "1"],
    [NoEntry EXCEPT !.school = "s", !.degree = "d", !.fieldofstudy = "f"],
    [NoEntry EXCEPT !.degree = "d", !.from = "1"],
    NoEntry }

ExperienceBodies ==
  { [NoEntry EXCEPT !.title = "t", !.company = "c", !.from = "1"],
    [NoEntry EXCEPT !.title = "t", !.company = "c"] }

\* Profile upserts, alone and against the cascade.
NextUpsert ==
  \/ \E s \in Slots, u \in UserIds, b \in UpsertBodies : UpsertProfileFind(s, u, b)
  \/ \E s \in Slots : UpsertProfileApply(s)
  \/ \E s \in Slots, u \in UserIds : DeleteMyProfilePosts(s, u)
  \/ \E s \in Slots : DeleteMyProfileProfile(s)
  \/ \E s \in Slots : DeleteMyProfileUser(s)

SpecUpsert == Init /\ [][NextUpsert]_vars

\* The embedded lists of a profile.
NextEntries ==
  \/ \E s \in Slots, u \in UserIds, b \in OneBody : UpsertProfileFind(s, u, b)
  \/ \E s \in Slots : UpsertProfileApply(s)
  \/ \E s \in Slots, u \in UserIds, e \in ExperienceBodies : AddExperienceRead(s, u, e)
  \/ \E s \in Slots : AddExperienceSave(s)
  \/ \E s \in Slots, u \in UserIds, e \in EducationBodies : AddEducationRead(s, u, e)
  \/ \E s \in Slots : AddEducationSave(s)

SpecEntries == Init /\ [][NextEntries]_vars

\* The cascade of DELETE api/profile against the requests that create documents.
NextCascade ==
  \/ \E s \in Slots, u \in UserIds, ok \in BOOLEAN : CreatePostStart(s, u, ok)
  \/ \E s \in Slots : CreatePostSave(s)
  \/ \E s \in Slots, u \in UserIds, b \in OneBody : UpsertProfileFind(s, u, b)
  \/ \E s \in Slots : UpsertProfileApply(s)
  \/ \E s \in Slots, u \in UserIds : DeleteMyProfilePosts(s, u)
  \/ \E s \in Slots : DeleteMyProfileProfile(s)
  \/ \E s \in Slots : DeleteMyProfileUser(s)

SpecCascade == Init /\ [][NextCascade]_vars

\* ------------------------------------------------------------------ claims
\* A request of this kind arrives in this step: it is answered at once, or it
\* takes a free slot.
Arrives(op, u, p, c) ==
  \/ /\ req' = req
     /\ resp'.op = op /\ resp'.user = u /\ resp'.post = p /\ resp'.cid = c
  \/ \E s \in Slots :
       /\ req[s].pc = "idle"
       /\ req'[s].op = op /\ req'[s].user = u /\ req'[s].post = p /\ req'[s].cid = c

\* C1: in every reachable state every post's likes list holds at most one like
\* per user, also when requests on the post interleave between read and save.
LikesUnique == \A p \in DOMAIN posts : NoDuplicates(posts[p].likes)

\* A like was saved over a copy that another request had made out of date.
LikesUniqueWitness ==
  /\ resp.op = "likePost" /\ resp.status = 200 /\ resp.stale
  /\ resp.post \in DOMAIN posts
  /\ Len(posts[resp.post].likes) >= 1

\* C2: a like by a user already in the likes, and an unlike by a user not in
\* them, are answered 400 and change no likes list.
ConflictLeavesLikes ==
  [][\A u \in UserIds : \A p \in DOMAIN posts :
       /\ (Arrives("likePost", u, p, 0) /\ u \in Range(posts[p].likes))
            => (resp' = Response("likePost", u, 400, p) /\ posts' = posts /\ req' = req)
       /\ (Arrives("unlikePost", u, p, 0) /\ u \notin Range(posts[p].likes))
            => (resp' = Response("unlikePost", u, 400, p) /\ posts' = posts /\ req' = req)]_vars

ConflictLeavesLikesWitness ==
  /\ resp.op = "likePost" /\ resp.status = 400
  /\ resp.post \in DOMAIN posts
  /\ resp.user \in Range(posts[resp.post].likes)

\* C3: a saved like followed by a saved unlike of the same user, with no step of
\* another request on the post between them, leaves the likes list as it was
\* when the like read it.
LikeUnlikeRoundTrip ==
  [][\A s \in Slots :
       (/\ req[s].op = "unlikePost" /\ req[s].pc = "save"
        /\ lastLike.valid /\ lastLike.by = s
        /\ req'[s].pc = "idle" /\ resp'.status = 200)
       => posts'[req[s].post].likes = lastLike.before]_vars

\* The round trip happened on a list that another user had liked before.
LikeUnlikeRoundTripWitness ==
  /\ resp.op = "unlikePost" /\ resp.status = 200
  /\ ~lastLike.valid /\ lastLike.by # ""
  /\ lastLike.post = resp.post /\ lastLike.user = resp.user
  /\ lastLike.before # <<>>

\* C5: deletePost by a user who does not own the post, and deleteComment by a
\* user who did not write the comment, are answered 401 and change nothing.
NonOwnerForbidden ==
  [][\A u \in UserIds : \A p \in DOMAIN posts :
       /\ (Arrives("deletePost", u, p, 0) /\ posts[p].user # u)
            => (resp' = Response("deletePost", u, 401, p) /\ posts' = posts /\ req' = req)
       /\ \A c \in CommentIds :
            (/\ Arrives("deleteComment", u, p, c)
             /\ \E i \in DOMAIN posts[p].comments :
                  posts[p].comments[i].id = c /\ posts[p].comments[i].user # u)
            => (/\ resp' = [Response("deleteComment", u, 401, p) EXCEPT !.cid = c]
                /\ posts' = posts /\ req' = req)]_vars

\* The owner of a post was refused the removal of another user's comment on it.
NonOwnerForbiddenWitness ==
  /\ resp.op = "deleteComment" /\ resp.status = 401
  /\ resp.post \in DOMAIN posts
  /\ posts[resp.post].user = resp.user

\* C6: deleteComment is answered 404 whenever the addressed post holds no comment
\* with the given id, the post being absent included, and changes nothing.
DeleteCommentNotFound ==
  [][\A u \in UserIds : \A p \in PostIds : \A c \in CommentIds :
       (/\ Arrives("deleteComment", u, p, c)
        /\ ~(p \in DOMAIN posts /\ \E i \in DOMAIN posts[p].comments :
                                      posts[p].comments[i].id = c))
       => (resp'.status = 404 /\ posts' = posts /\ req' = req)]_vars

\* C4: addEducation with school, degree, field of study or from missing or empty
\* is answered 400, and no step of that request changes the Profile store.
EducationValidation ==
  [][\A s \in Slots :
       LET e == req'[s].entry
           missing(x) == x.school = "" \/ x.degree = "" \/ x.fieldofstudy = "" \/ x.from = "" IN
       /\ (req[s].pc = "idle" /\ req'[s].op = "addEducation" /\ missing(e))
            => resp'.status = 400
       /\ (req[s].op = "addEducation" /\ req[s].pc = "saveProfile" /\ req'[s].pc = "idle"
            /\ missing(req[s].entry))
            => profiles' = profiles]_vars

\* C7: when a cascade of user U that ran with no other request of U in flight is
\* answered 200, no post of U is left, U's user record is gone and
\* getProfileByUser(U) answers NotFound.
CascadeRemovesAll ==
  [][\A s \in Slots :
       (/\ req[s].op = "deleteMyProfile" /\ req[s].pc = "user" /\ req[s].alone
        /\ req'[s].pc = "idle" /\ resp'.status = 200)
       => (/\ \A p \in DOMAIN posts' : posts'[p].user # req[s].user
           /\ req[s].user \notin users'
           /\ GetProfileByUser(profiles', req[s].user) = 400)]_vars

\* Such a cascade removed posts, after a profile had been inserted.
CascadeRemovesAllWitness ==
  /\ resp.op = "deleteMyProfile" /\ resp.status = 200 /\ resp.alone
  /\ resp.n >= 2
  /\ nextProfileId > 1 /\ profiles = <<>> /\ users = UserIds \ {resp.user}

\* C8, first half: at most one profile per user.
AtMostOneProfile == \A u \in UserIds : Cardinality(Of(profiles, u)) <= 1

\* C8: in every reachable state there is at most one profile per user, also when
\* upserts of one user interleave, and an upsert that repeats the body of the
\* user's last upsert leaves the Profile store as it is.
UpsertOnePerUserIdempotent ==
  /\ []AtMostOneProfile
  /\ [][\A s \in Slots :
          (/\ req[s].op = "upsertProfile" /\ req[s].pc = "apply"
           /\ req'[s].pc = "idle" /\ resp'.status = 200
           /\ lastUpsert[req[s].user] = req[s].body)
          => profiles' = profiles]_vars

\* An upsert repeated the body whose skills and addresses are normalised.
UpsertOnePerUserIdempotentWitness ==
  /\ resp.op = "upsertProfile" /\ resp.status = 200 /\ resp.n = 1
  /\ \E i \in Of(profiles, resp.user) :
       /\ profiles[i].skills = << <<"a">>, <<"b">> >>
       /\ profiles[i].website = "https://x.com"
       /\ profiles[i].twitter = "https://x.com"

\* C9: at every intermediate state of a cascade of user U that runs with no other
\* request of U in flight, no post and no profile of U exists once U's user
\* record is deleted.
CascadeOrder ==
  \A s \in Slots :
    (/\ req[s].op = "deleteMyProfile" /\ req[s].pc # "idle" /\ req[s].alone
     /\ req[s].user \notin users)
    => (/\ \A p \in DOMAIN posts : posts[p].user # req[s].user
        /\ Of(profiles, req[s].user) = {})

\* C10: in every reachable state the user of every profile and of every post is
\* an existing user record.
ReferentialIntegrity ==
  /\ \A i \in DOMAIN profiles : profiles[i].user \in users
  /\ \A p \in DOMAIN posts : posts[p].user \in users

====
